---- MODULE Spec2Model ----
(***************************************************************************)
(* Stavily plugins: the plugin runtime shared by the four plugins          *)
(* (disk-space-monitor, memory-monitor, shell-command, email-notification):*)
(* the lifecycle operations, the stdin/stdout command loop of main(), the  *)
(* threshold detection with its cooldown table, and the action executor.   *)
(*                                                                         *)
(* One behaviour is one plugin process.  JSON values are tagged records    *)
(* (Num, Str, List); a JSON object is a function from its keys.  Percent   *)
(* values, thresholds and times are integers; the wall clock `now` counts  *)
(* seconds and never goes back.                                            *)
(***************************************************************************)
EXTENDS Integers, Sequences, FiniteSets, TLC

VARIABLES
    kind,       \* which plugin this process runs (its get_info id)
    plugin,     \* the plugin instance: the self.* fields set by __init__
    now,        \* the clock read by datetime.now() / time.time()
    metrics,    \* what psutil reported to the last detect_triggers that read it
    response,   \* the last line printed to stdout by main()
    invoked,    \* Action Source invocations made by the last command
    pc          \* where main() is: "readline" in its loop, "communicate" in an
                \* execution that waits for its child, or the way the loop ended

vars == <<kind, plugin, now, metrics, response, invoked, pc>>

-----------------------------------------------------------------------------
(* Bounds of the model *)

\* the clock runs from 0 to MaxTime
MaxTime == 2

-----------------------------------------------------------------------------
(* JSON values and Python helpers *)

Num(n) == [t |-> "num", v |-> n]
Str(s) == [t |-> "str", v |-> s]
List(q) == [t |-> "list", v |-> q]
Bool(b) == [t |-> "bool", v |-> b]

\* Python None, as a response's data
None == [t |-> "null"]

\* the empty dict {}
EmptyDict == [k \in {} |-> None]

\* dict.get(key, default)
Get(d, key, default) == IF key \in DOMAIN d THEN d[key] ELSE default

\* d[key] = value on a dict
Put(d, key, value) == [k \in (DOMAIN d) \cup {key} |-> IF k = key THEN value ELSE d[k]]

\* float(x) / int(x) raise unless x is a number
Converts(x) == x.t = "num"

\* str.startswith
StartsWith(s, p) == Len(p) <= Len(s) /\ SubSeq(s, 1, Len(p)) = p

\* the elements of a list
Elems(q) == {q[i] : i \in 1..Len(q)}

-----------------------------------------------------------------------------
(* The plugins *)

Disk == "disk-space-monitor"
Memory == "memory-monitor"
Shell == "shell-command"
Email == "email-notification"

TriggerKinds == {Disk, Memory}
ActionKinds == {Shell, Email}
Kinds == TriggerKinds \cup ActionKinds

\* DiskSpaceMonitorPlugin.__init__
NewDisk ==
    [config |-> EmptyDict, threshold |-> 85, critical_threshold |-> 95,
     interval |-> 300, monitored_paths |-> <<"/", "/var", "/tmp", "/home">>,
     exclude_types |-> <<"tmpfs", "devtmpfs", "proc", "sysfs">>,
     running |-> FALSE, status |-> "stopped", start_time |-> <<>>,
     last_alert_time |-> EmptyDict, alert_cooldown |-> 600]

\* MemoryMonitorPlugin.__init__
NewMemory ==
    [config |-> EmptyDict, memory_threshold |-> 85, swap_threshold |-> 90,
     interval |-> 60, running |-> FALSE, status |-> "stopped",
     start_time |-> <<>>, last_alert_time |-> EmptyDict, alert_cooldown |-> 300]

\* ShellCommandPlugin.__init__; demo is STAVILY_DEMO_MODE
NewShell(demo) ==
    [config |-> EmptyDict, allowed_commands |-> <<>>,
     blocked_commands |-> <<"rm", "rmdir", "dd", "mkfs", "fdisk", "format">>,
     allowed_paths |-> <<"/tmp", "/var/tmp">>, timeout |-> 300,
     max_output_size |-> 1048576, running |-> FALSE, status |-> "stopped",
     start_time |-> <<>>, demo_mode |-> demo]

\* EmailNotificationPlugin.__init__; demo is STAVILY_DEMO_MODE
NewEmail(demo) ==
    [config |-> EmptyDict, smtp_server |-> Str(""), smtp_port |-> 587,
     username |-> Str(""), password |-> Str(""), from_email |-> Str(""),
     use_tls |-> Bool(TRUE), running |-> FALSE, status |-> "stopped",
     start_time |-> <<>>, demo_mode |-> demo]

-----------------------------------------------------------------------------
(* initialize(config): the assignments in order; an exception keeps what    *)
(* was assigned before it and sets status "error".                          *)

Failed(self) == [self |-> [self EXCEPT !.status = "error"], ret |-> FALSE]
Accepted(self) == [self |-> [self EXCEPT !.status = "initialized"], ret |-> TRUE]

\* DiskSpaceMonitorPlugin.initialize with > for >= in the threshold ordering check
DiskInitializeLax(self, config) ==
    LET th == Get(config, "threshold", Num(85))
        cr == Get(config, "critical_threshold", Num(95))
        iv == Get(config, "interval", Num(300))
        cd == Get(config, "alert_cooldown", Num(600))
        s0 == [self EXCEPT !.config = config]
    IN  IF ~Converts(th) THEN Failed(s0) ELSE
        LET s1 == [s0 EXCEPT !.threshold = th.v] IN
        IF ~Converts(cr) THEN Failed(s1) ELSE
        LET s2 == [s1 EXCEPT !.critical_threshold = cr.v] IN
        IF ~Converts(iv) THEN Failed(s2) ELSE
        LET s3 == [s2 EXCEPT !.interval = iv.v] IN
        IF ~Converts(cd) THEN Failed(s3) ELSE
        LET s4 == [s3 EXCEPT !.alert_cooldown = cd.v]
            s5 == IF "monitored_paths" \in DOMAIN config
                  THEN [s4 EXCEPT !.monitored_paths = config["monitored_paths"].v]
                  ELSE s4
            s6 == IF "exclude_types" \in DOMAIN config
                  THEN [s5 EXCEPT !.exclude_types = config["exclude_types"].v]
                  ELSE s5
        IN  IF ~(0 <= s6.threshold /\ s6.threshold <= 100) THEN Failed(s6)
            ELSE IF ~(0 <= s6.critical_threshold /\ s6.critical_threshold <= 100)
                 THEN Failed(s6)
            ELSE IF s6.threshold > s6.critical_threshold THEN Failed(s6)
            ELSE IF s6.interval < 1 THEN Failed(s6)
            ELSE Accepted(s6)

\* DiskSpaceMonitorPlugin.initialize
DiskInitialize(self, config) ==
    LET th == Get(config, "threshold", Num(85))
        cr == Get(config, "critical_threshold", Num(95))
        iv == Get(config, "interval", Num(300))
        cd == Get(config, "alert_cooldown", Num(600))
        s0 == [self EXCEPT !.config = config]
    IN  IF ~Converts(th) THEN Failed(s0) ELSE
        LET s1 == [s0 EXCEPT !.threshold = th.v] IN
        IF ~Converts(cr) THEN Failed(s1) ELSE
        LET s2 == [s1 EXCEPT !.critical_threshold = cr.v] IN
        IF ~Converts(iv) THEN Failed(s2) ELSE
        LET s3 == [s2 EXCEPT !.interval = iv.v] IN
        IF ~Converts(cd) THEN Failed(s3) ELSE
        LET s4 == [s3 EXCEPT !.alert_cooldown = cd.v]
            s5 == IF "monitored_paths" \in DOMAIN config
                  THEN [s4 EXCEPT !.monitored_paths = config["monitored_paths"].v]
                  ELSE s4
            s6 == IF "exclude_types" \in DOMAIN config
                  THEN [s5 EXCEPT !.exclude_types = config["exclude_types"].v]
                  ELSE s5
        IN  IF ~(0 <= s6.threshold /\ s6.threshold <= 100) THEN Failed(s6)
            ELSE IF ~(0 <= s6.critical_threshold /\ s6.critical_threshold <= 100)
                 THEN Failed(s6)
            ELSE IF s6.threshold >= s6.critical_threshold THEN Failed(s6)
            ELSE IF s6.interval < 1 THEN Failed(s6)
            ELSE Accepted(s6)

\* MemoryMonitorPlugin.initialize
MemoryInitialize(self, config) ==
    LET mt == Get(config, "memory_threshold", Num(85))
        st == Get(config, "swap_threshold", Num(90))
        iv == Get(config, "interval", Num(60))
        cd == Get(config, "alert_cooldown", Num(300))
        s0 == [self EXCEPT !.config = config]
    IN  IF ~Converts(mt) THEN Failed(s0) ELSE
        LET s1 == [s0 EXCEPT !.memory_threshold = mt.v] IN
        IF ~Converts(st) THEN Failed(s1) ELSE
        LET s2 == [s1 EXCEPT !.swap_threshold = st.v] IN
        IF ~Converts(iv) THEN Failed(s2) ELSE
        LET s3 == [s2 EXCEPT !.interval = iv.v] IN
        IF ~Converts(cd) THEN Failed(s3) ELSE
        LET s4 == [s3 EXCEPT !.alert_cooldown = cd.v]
        IN  IF ~(0 <= s4.memory_threshold /\ s4.memory_threshold <= 100) THEN Failed(s4)
            ELSE IF ~(0 <= s4.swap_threshold /\ s4.swap_threshold <= 100) THEN Failed(s4)
            ELSE IF s4.interval < 1 THEN Failed(s4)
            ELSE Accepted(s4)

\* ShellCommandPlugin.initialize
ShellInitialize(self, config) ==
    LET to == Get(config, "timeout", Num(300))
        mo == Get(config, "max_output_size", Num(1048576))
        s0 == [self EXCEPT !.config = config]
        s1 == IF "allowed_commands" \in DOMAIN config
              THEN [s0 EXCEPT !.allowed_commands = config["allowed_commands"].v]
              ELSE s0
        s2 == IF "blocked_commands" \in DOMAIN config
              THEN [s1 EXCEPT !.blocked_commands = config["blocked_commands"].v]
              ELSE s1
        s3 == IF "allowed_paths" \in DOMAIN config
              THEN [s2 EXCEPT !.allowed_paths = config["allowed_paths"].v]
              ELSE s2
    IN  IF ~Converts(to) THEN Failed(s3) ELSE
        LET s4 == [s3 EXCEPT !.timeout = to.v] IN
        IF ~Converts(mo) THEN Failed(s4) ELSE
        LET s5 == [s4 EXCEPT !.max_output_size = mo.v]
        IN  IF s5.timeout <= 0 THEN Failed(s5)
            ELSE IF s5.max_output_size <= 0 THEN Failed(s5)
            ELSE Accepted(s5)

\* bool(x) of a JSON string: the empty string is falsy
Truthy(x) == ~(x.t = "str" /\ x.v = "")

\* EmailNotificationPlugin.initialize
EmailInitialize(self, config) ==
    LET po == Get(config, "smtp_port", Num(587))
        s0 == [self EXCEPT !.config = config]
        s1 == [s0 EXCEPT !.smtp_server = Get(config, "smtp_server", Str(""))]
    IN  IF ~Converts(po) THEN Failed(s1) ELSE
        LET s2 == [s1 EXCEPT !.smtp_port = po.v,
                             !.username = Get(config, "username", Str("")),
                             !.password = Get(config, "password", Str(""))]
            s3 == [s2 EXCEPT !.from_email = Get(config, "from_email", s2.username),
                             !.use_tls = Get(config, "use_tls", Bool(TRUE))]
        IN  IF ~s3.demo_mode /\ ~(Truthy(s3.smtp_server) /\ Truthy(s3.username)
                                  /\ Truthy(s3.password) /\ Truthy(s3.from_email))
            THEN Failed(s3)
            ELSE Accepted(s3)

\* plugin.initialize(config) of the plugin main() constructed
initialize(k, self, config) ==
    CASE k = Disk -> DiskInitialize(self, config)
      [] k = Memory -> MemoryInitialize(self, config)
      [] k = Shell -> ShellInitialize(self, config)
      [] k = Email -> EmailInitialize(self, config)

-----------------------------------------------------------------------------
(* start(), stop(), get_status(), get_health(): the same code in the four   *)
(* plugins.                                                                 *)

start(self, t) ==
    IF self.running
    THEN [self |-> self, ret |-> TRUE]
    ELSE [self |-> [self EXCEPT !.running = TRUE, !.status = "running",
                                !.start_time = <<t>>],
          ret |-> TRUE]

\* stop() that sets the status and leaves the running flag
StopKeepsRunning(self) ==
    [self |-> [self EXCEPT !.status = "stopped"], ret |-> TRUE]

\* stop() that also forgets the cooldown table
StopEvicts(self) ==
    [self |-> [f \in DOMAIN self |->
                 IF f = "running" THEN FALSE
                 ELSE IF f = "status" THEN "stopped"
                 ELSE IF f = "last_alert_time" THEN EmptyDict
                 ELSE self[f]],
     ret |-> TRUE]

stop(self) ==
    [self |-> [self EXCEPT !.running = FALSE, !.status = "stopped"], ret |-> TRUE]

get_status(self) == self.status

\* the status and uptime entries of get_health()'s result
get_health(self, t) ==
    [status |-> IF self.running THEN "healthy" ELSE "unhealthy",
     uptime |-> IF self.start_time # <<>> THEN t - self.start_time[1] ELSE 0]

-----------------------------------------------------------------------------
(* The Metrics Source (psutil) and the trigger detection *)

\* a reading of psutil: disk partitions with their usage, or memory and swap
NoReading == [ok |-> TRUE, read |-> FALSE]
DiskReading(parts) == [ok |-> TRUE, read |-> TRUE, partitions |-> parts]
MemoryReading(m, s) == [ok |-> TRUE, read |-> TRUE, memory_percent |-> m, swap_percent |-> s]
FailedReading == [ok |-> FALSE, read |-> TRUE]
\* psutil.disk_partitions() answers, and psutil.disk_usage raises exc for the
\* mountpoint fails
PartlyFailedReading(parts, fails, exc) ==
    [ok |-> TRUE, read |-> TRUE, partitions |-> parts, fails |-> fails, exc |-> exc]

\* psutil.disk_usage(p.mountpoint) raises
DiskUsageFails(m, p) == "fails" \in DOMAIN m /\ p.mountpoint = m.fails

\* DiskSpaceMonitorPlugin._get_disk_info: when psutil.disk_partitions raises,
\* the empty list is returned; a PermissionError or OSError of
\* psutil.disk_usage skips that filesystem; any other exception of it ends
\* the loop and the list built so far is returned
_get_disk_info(self, m) ==
    IF ~m.ok THEN <<>>
    ELSE LET Monitored(p) ==
                 /\ p.fstype \notin Elems(self.exclude_types)
                 /\ (self.monitored_paths # <<>> =>
                       \E path \in Elems(self.monitored_paths) :
                           StartsWith(p.mountpoint, path))
             ends == {i \in DOMAIN m.partitions :
                         /\ Monitored(m.partitions[i])
                         /\ DiskUsageFails(m, m.partitions[i])
                         /\ m.exc # "OSError"}
             last == IF ends = {} THEN Len(m.partitions)
                     ELSE (CHOOSE i \in ends : \A j \in ends : i <= j) - 1
         IN  SelectSeq(SubSeq(m.partitions, 1, last),
                       LAMBDA p : Monitored(p) /\ ~DiskUsageFails(m, p))

\* _should_alert with > for >=: an alert made exactly alert_cooldown ago still suppresses
ShouldAlertStrict(self, alert_key, current_time) ==
    IF alert_key \notin DOMAIN self.last_alert_time
    THEN TRUE
    ELSE current_time - self.last_alert_time[alert_key] > self.alert_cooldown

\* _should_alert, the same code in both monitors
_should_alert(self, alert_key, current_time) ==
    IF alert_key \notin DOMAIN self.last_alert_time
    THEN TRUE
    ELSE current_time - self.last_alert_time[alert_key] >= self.alert_cooldown

\* str.replace('/', '_')
RECURSIVE ReplaceSlash(_)
ReplaceSlash(s) ==
    IF Len(s) = 0 THEN ""
    ELSE (IF SubSeq(s, 1, 1) = "/" THEN "_" ELSE SubSeq(s, 1, 1))
         \o ReplaceSlash(SubSeq(s, 2, Len(s)))

\* DiskSpaceMonitorPlugin._create_disk_event
_create_disk_event(filesystem, alert_level, threshold, t) ==
    [t |-> "event",
     id |-> "disk-" \o alert_level \o "-" \o ReplaceSlash(filesystem.mountpoint)
            \o "-" \o ToString(t),
     type |-> "disk.space." \o alert_level,
     source |-> Disk,
     timestamp |-> t,
     data |-> [alert_level |-> alert_level, filesystem |-> filesystem,
               threshold |-> threshold, usage_percent |-> filesystem.percent],
     severity |-> IF alert_level = "critical" THEN "critical" ELSE "high"]

\* the alert level with the two tests in the other order: the warning
\* threshold is tried first
DiskAlertLevelWarningFirst(self, usage) ==
    IF usage >= self.threshold THEN "warning"
    ELSE IF usage >= self.critical_threshold THEN "critical"
    ELSE "skip"

\* the alert level detect_triggers gives a usage; "skip" is the `continue`
DiskAlertLevel(self, usage) ==
    IF usage >= self.critical_threshold THEN "critical"
    ELSE IF usage >= self.threshold THEN "warning"
    ELSE "skip"

\* alert_key = f"{mountpoint}_{alert_level}"
DiskAlertKey(mountpoint, alert_level) == mountpoint \o "_" \o alert_level

\* the loop of DiskSpaceMonitorPlugin.detect_triggers from filesystem i on:
\* the first alert that is not in cooldown is recorded and returned
RECURSIVE DiskScan(_, _, _, _)
DiskScan(self, disk_info, i, t) ==
    IF i > Len(disk_info) THEN [self |-> self, ret |-> None]
    ELSE LET filesystem == disk_info[i]
             alert_level == DiskAlertLevel(self, filesystem.percent)
             threshold == IF alert_level = "critical" THEN self.critical_threshold
                          ELSE self.threshold
             alert_key == DiskAlertKey(filesystem.mountpoint, alert_level)
         IN  IF alert_level = "skip" THEN DiskScan(self, disk_info, i + 1, t)
             ELSE IF _should_alert(self, alert_key, t)
             THEN [self |-> [self EXCEPT !.last_alert_time = Put(@, alert_key, t)],
                   ret |-> _create_disk_event(filesystem, alert_level, threshold, t)]
             ELSE DiskScan(self, disk_info, i + 1, t)

\* DiskSpaceMonitorPlugin.detect_triggers
DiskDetect(self, m, t) ==
    IF ~self.running THEN [self |-> self, ret |-> None]
    ELSE DiskScan(self, _get_disk_info(self, m), 1, t)

\* MemoryMonitorPlugin._create_memory_event
_create_memory_event(self, m, alert_type, t) ==
    LET usage == IF alert_type = "memory" THEN m.memory_percent ELSE m.swap_percent
    IN  [t |-> "event",
         id |-> "memory-" \o alert_type \o "-" \o ToString(t),
         type |-> IF alert_type = "memory" THEN "memory.high" ELSE "swap.high",
         source |-> Memory,
         timestamp |-> t,
         data |-> [alert_type |-> alert_type, usage_percent |-> usage,
                   threshold |-> IF alert_type = "memory" THEN self.memory_threshold
                                 ELSE self.swap_threshold],
         severity |-> IF alert_type = "memory"
                      THEN (IF usage > 95 THEN "critical"
                            ELSE IF usage > 90 THEN "high" ELSE "medium")
                      ELSE (IF usage > 95 THEN "critical" ELSE "high")]

\* MemoryMonitorPlugin.detect_triggers without the return after the memory alert:
\* the swap alert of the same poll is recorded too
MemoryDetectBoth(self, m, t) ==
    IF ~self.running THEN [self |-> self, ret |-> None]
    ELSE IF ~m.ok THEN [self |-> self, ret |-> None]
    ELSE
    LET mem == m.memory_percent > self.memory_threshold /\ _should_alert(self, "memory", t)
        swp == m.swap_percent > self.swap_threshold /\ _should_alert(self, "swap", t)
        s1 == IF mem THEN [self EXCEPT !.last_alert_time = Put(@, "memory", t)] ELSE self
        s2 == IF swp THEN [s1 EXCEPT !.last_alert_time = Put(@, "swap", t)] ELSE s1
    IN  [self |-> s2,
         ret |-> IF mem THEN _create_memory_event(self, m, "memory", t)
                 ELSE IF swp THEN _create_memory_event(self, m, "swap", t)
                 ELSE None]

\* MemoryMonitorPlugin.detect_triggers; a psutil error is caught and None returned
MemoryDetect(self, m, t) ==
    IF ~self.running THEN [self |-> self, ret |-> None]
    ELSE IF ~m.ok THEN [self |-> self, ret |-> None]
    ELSE IF m.memory_percent > self.memory_threshold /\ _should_alert(self, "memory", t)
    THEN [self |-> [self EXCEPT !.last_alert_time = Put(@, "memory", t)],
          ret |-> _create_memory_event(self, m, "memory", t)]
    ELSE IF m.swap_percent > self.swap_threshold /\ _should_alert(self, "swap", t)
    THEN [self |-> [self EXCEPT !.last_alert_time = Put(@, "swap", t)],
          ret |-> _create_memory_event(self, m, "swap", t)]
    ELSE [self |-> self, ret |-> None]

\* detect_triggers whose emitting call starts the cooldown table afresh: only
\* the entry of the emitted key is left
DetectForgetsOthers(k, self, m, t) ==
    LET r == IF k = Disk THEN DiskDetect(self, m, t) ELSE MemoryDetect(self, m, t)
    IN  IF r.ret = None THEN r
        ELSE [self |-> [r.self EXCEPT !.last_alert_time =
                           Put([key \in {} |-> 0], IF k = Disk
                                  THEN DiskAlertKey(r.ret.data.filesystem.mountpoint,
                                                    r.ret.data.alert_level)
                                  ELSE r.ret.data.alert_type, t)],
              ret |-> r.ret]

\* plugin.detect_triggers() of a monitoring plugin
detect_triggers(k, self, m, t) ==
    IF k = Disk THEN DiskDetect(self, m, t) ELSE MemoryDetect(self, m, t)

-----------------------------------------------------------------------------
(* The Action Source and the action executor *)

\* substring test: p in s
Contains(s, p) ==
    \E i \in 1..(Len(s) - Len(p) + 1) : SubSeq(s, i, i + Len(p) - 1) = p

RECURSIVE StripLeft(_)
StripLeft(s) ==
    IF Len(s) > 0 /\ SubSeq(s, 1, 1) = " " THEN StripLeft(SubSeq(s, 2, Len(s))) ELSE s

RECURSIVE UntilSpace(_)
UntilSpace(s) ==
    IF Len(s) = 0 \/ SubSeq(s, 1, 1) = " " THEN ""
    ELSE SubSeq(s, 1, 1) \o UntilSpace(SubSeq(s, 2, Len(s)))

\* shlex.split(command)[0] of a command without quotes; "" when there is no token
FirstToken(s) == UntilSpace(StripLeft(s))

\* s.split("/")[-1]
RECURSIVE Basename(_)
Basename(s) == IF ~Contains(s, "/") THEN s ELSE Basename(SubSeq(s, 2, Len(s)))

\* an error result without its times
CreateErrorResultUntimed(k, action_id, error, start_time, t) ==
    [id |-> action_id, status |-> "failed", error |-> error,
     metadata |-> [plugin_id |-> k, plugin_version |-> "1.0.0"]]

\* _create_error_result, the same code in both action plugins
_create_error_result(k, action_id, error, start_time, t) ==
    [id |-> action_id, status |-> "failed", error |-> error,
     started_at |-> start_time, completed_at |-> t, duration |-> t - start_time,
     metadata |-> [plugin_id |-> k, plugin_version |-> "1.0.0"]]

\* the result dict execute_action starts from
RunningResult(k, action_id, start_time) ==
    [id |-> action_id, status |-> "running", started_at |-> start_time,
     metadata |-> [plugin_id |-> k, plugin_version |-> "1.0.0",
                   execution_host |-> "nodename"]]

\* an update that leaves a status the result already has
UpdateKeepsStatus(r, u) ==
    [f \in (DOMAIN r) \cup (DOMAIN u) |->
        IF f \in DOMAIN u /\ ~(f = "status" /\ f \in DOMAIN r) THEN u[f] ELSE r[f]]

\* result.update({...}): the keys of u are set in r
Update(r, u) == [f \in (DOMAIN r) \cup (DOMAIN u) |-> IF f \in DOMAIN u THEN u[f] ELSE r[f]]

\* the final result.update of execute_action
Finalize(r, start_time, t) ==
    Update(r, [completed_at |-> t, duration |-> t - start_time])

dangerous_patterns == <<"rm -rf", ":(){ :|:& };:", "chmod 777", "chown root">>

\* the command strings of the requests of the model (lower case, unquoted)
Commands == {"ls -la", "rm -rf /", "echo hi", "cat x; chmod 777 y", "/bin/dd if=x", "   "}

\* tokens[0].split("/")[-1] of each command, "" when shlex.split gives no token
MainCommandOf == [c \in Commands |-> Basename(FirstToken(c))]

\* the first of dangerous_patterns found in each command, "" when there is none
DangerousIn ==
    [c \in Commands |->
        LET hits == {i \in 1..Len(dangerous_patterns) : Contains(c, dangerous_patterns[i])}
        IN  IF hits = {} THEN ""
            ELSE dangerous_patterns[CHOOSE i \in hits : \A j \in hits : i <= j]]

\* an f-string, as the sequence of its parts
Fmt(parts) == parts

\* a validation without the search for dangerous patterns
ValidateWithoutPatterns(self, command, working_dir) ==
    LET main_command == MainCommandOf[command]
    IN  IF main_command = "" THEN [valid |-> FALSE, error |-> Fmt(<<"Empty command">>)]
        ELSE IF main_command \in Elems(self.blocked_commands)
        THEN [valid |-> FALSE,
              error |-> Fmt(<<"Command '", main_command, "' is blocked for security">>)]
        ELSE IF self.allowed_commands # <<>> /\ main_command \notin Elems(self.allowed_commands)
        THEN [valid |-> FALSE,
              error |-> Fmt(<<"Command '", main_command, "' is not in allowed list">>)]
        ELSE IF self.allowed_paths # <<>>
                /\ ~\E path \in Elems(self.allowed_paths) : StartsWith(working_dir, path)
        THEN [valid |-> FALSE,
              error |-> Fmt(<<"Working directory '", working_dir, "' is not allowed">>)]
        ELSE [valid |-> TRUE]

\* ShellCommandPlugin._validate_command
_validate_command(self, command, working_dir) ==
    LET main_command == MainCommandOf[command]
    IN  IF main_command = "" THEN [valid |-> FALSE, error |-> Fmt(<<"Empty command">>)]
        ELSE IF main_command \in Elems(self.blocked_commands)
        THEN [valid |-> FALSE,
              error |-> Fmt(<<"Command '", main_command, "' is blocked for security">>)]
        ELSE IF self.allowed_commands # <<>> /\ main_command \notin Elems(self.allowed_commands)
        THEN [valid |-> FALSE,
              error |-> Fmt(<<"Command '", main_command, "' is not in allowed list">>)]
        ELSE IF self.allowed_paths # <<>>
                /\ ~\E path \in Elems(self.allowed_paths) : StartsWith(working_dir, path)
        THEN [valid |-> FALSE,
              error |-> Fmt(<<"Working directory '", working_dir, "' is not allowed">>)]
        ELSE IF DangerousIn[command] # ""
        THEN [valid |-> FALSE,
              error |-> Fmt(<<"Command contains dangerous pattern: ", DangerousIn[command]>>)]
        ELSE [valid |-> TRUE]

TruncationMarker == "\n... [output truncated]"

\* an output limit that also cuts a stream of exactly max_output_size characters
TruncateAtLimit(self, out) ==
    IF Len(out) >= self.max_output_size
    THEN SubSeq(out, 1, self.max_output_size) \o TruncationMarker
    ELSE out

\* the output limit of _execute_command
Truncate(self, out) ==
    IF Len(out) > self.max_output_size
    THEN SubSeq(out, 1, self.max_output_size) \o TruncationMarker
    ELSE out

\* process.communicate(timeout=timeout) gives up when the child runs longer
\* than timeout seconds; with timeout None it waits for the child without limit
Expires(timeout, o) ==
    /\ timeout.t = "num"
    /\ o.how = "hang" \/ o.runs > timeout.v

\* ShellCommandPlugin._execute_command; o is what the operating system does:
\* o.how is "nodir", "noaccess", "raise" (Popen fails), "child" (the child
\* would run o.runs seconds and end with o.rc) or "hang" (the child does not
\* end by itself); when communicate() gives up the child is killed.  The
\* timeout is the JSON value of the request, or the configured number.
_execute_command(self, command, working_dir, timeout, o) ==
    CASE o.how = "nodir" ->
           [success |-> FALSE, took |-> 0,
            error |-> Fmt(<<"Working directory does not exist: ", working_dir>>)]
      [] o.how = "noaccess" ->
           [success |-> FALSE, took |-> 0,
            error |-> Fmt(<<"No write access to working directory: ", working_dir>>)]
      [] o.how = "raise" -> [success |-> FALSE, took |-> 0, error |-> Fmt(<<"OSError">>)]
      [] o.how \in {"child", "hang"} /\ Expires(timeout, o) ->
           [success |-> FALSE, took |-> timeout.v,
            error |-> Fmt(<<"Command timed out after ", timeout.v, " seconds">>)]
      [] o.how = "hang" /\ ~Expires(timeout, o) -> [waits |-> TRUE]
      [] o.how = "child" /\ ~Expires(timeout, o) ->
           [success |-> TRUE, took |-> o.runs, return_code |-> o.rc,
            stdout |-> Truncate(self, o.stdout), stderr |-> Truncate(self, o.stderr),
            execution_time |-> o.runs]

\* the stdout _simulate_command_execution makes up for each command
SimulatedStdout ==
    [c \in Commands |->
        IF Contains(c, "ls") THEN "file1.txt"
        ELSE IF Contains(c, "ps") THEN "PID"
        ELSE IF Contains(c, "systemctl")
             THEN (IF Contains(c, "status") THEN "nginx.service"
                   ELSE "Service operation completed successfully")
        ELSE IF Contains(c, "grep") THEN "ERROR"
        ELSE IF Contains(c, "df") THEN "Filesystem"
        ELSE "Simulated output for command: " \o c]

\* the stderr _simulate_command_execution makes up for a failing command
SimulatedStderr == [c \in Commands |-> "Simulated error for command: " \o c]

\* ShellCommandPlugin._simulate_command_execution; o.fail is random.random() < 0.1
\* and o.runs the time slept
_simulate_command_execution(command, o) ==
    LET return_code == IF o.fail THEN 1 ELSE 0
        stderr == IF o.fail THEN SimulatedStderr[command] ELSE ""
    IN  [success |-> return_code = 0, took |-> o.runs, return_code |-> return_code,
         stdout |-> SimulatedStdout[command], stderr |-> stderr, execution_time |-> o.runs,
         error |-> Fmt(<<IF return_code # 0 THEN stderr ELSE "">>)]

\* an executor that tries the Action Source a second time after a failure
ReturnedAfterRetry(result, n, t) ==
    [ret |-> result, invoked |-> IF n = 1 /\ result.status = "failed" THEN 2 ELSE n,
     end |-> t]

\* what execute_action hands back to main(): the result, the Action Source
\* invocations it made and the clock when it returned
Returned(result, n, t) == [ret |-> result, invoked |-> n, end |-> t]

\* execute_action does not return: it waits in communicate() for a child
\* that does not end
Waiting(t) == [waits |-> TRUE, invoked |-> 1, end |-> t]

\* ShellCommandPlugin.execute_action called when the clock is t
ShellExecute(self, action_request, t, o) ==
    IF ~self.running
    THEN Returned(_create_error_result(Shell, action_request.id, Fmt(<<"Plugin is not running">>), t, t),
                  0, t)
    ELSE
    LET action_id == action_request.id
        parameters == Get(action_request, "parameters", EmptyDict)
        command == Get(parameters, "command", "")
        working_dir == Get(parameters, "working_dir", "/tmp")
        timeout == Get(parameters, "timeout", Num(self.timeout))
        result == RunningResult(Shell, action_id, t)
    IN  IF command = ""
        THEN Returned(_create_error_result(Shell, action_id,
                                           Fmt(<<"Command parameter is required">>), t, t), 0, t)
        ELSE
        LET validation_result == _validate_command(self, command, working_dir) IN
        IF ~validation_result.valid
        THEN Returned(_create_error_result(Shell, action_id, validation_result.error, t, t),
                      0, t)
        ELSE
        LET exec_result == IF self.demo_mode
                           THEN _simulate_command_execution(command, o)
                           ELSE _execute_command(self, command, working_dir, timeout, o)
            end == t + exec_result.took
        IN  IF "waits" \in DOMAIN exec_result THEN Waiting(t)
            ELSE
            IF exec_result.success
            THEN Returned(Finalize(Update(result,
                            [status |-> "completed",
                             data |-> [command |-> command, working_dir |-> working_dir,
                                       return_code |-> exec_result.return_code,
                                       stdout |-> exec_result.stdout,
                                       stderr |-> exec_result.stderr,
                                       execution_time |-> exec_result.execution_time,
                                       demo_mode |-> self.demo_mode]]), t, end), 1, end)
            ELSE Returned(Finalize(Update(result,
                            [status |-> "failed", error |-> exec_result.error,
                             data |-> [command |-> command,
                                       return_code |-> Get(exec_result, "return_code", None),
                                       stdout |-> Get(exec_result, "stdout", ""),
                                       stderr |-> Get(exec_result, "stderr", "")]]),
                            t, end), 1, end)

\* _send_email / _simulate_email_send; o.fail is an SMTP error, or
\* random.random() < 0.05 in demo mode; o.runs is the time the sending takes
SendEmail(self, o, t) ==
    IF o.fail
    THEN [success |-> FALSE, took |-> o.runs,
          error |-> IF self.demo_mode
                    THEN Fmt(<<"Simulated SMTP connection timeout (demo mode)">>)
                    ELSE Fmt(<<"SMTPException">>)]
    ELSE [success |-> TRUE, took |-> o.runs,
          message_id |-> IF self.demo_mode
                         THEN Fmt(<<"<demo-", t + o.runs, "@stavily-demo>">>)
                         ELSE Fmt(<<>>)]

\* a recipient parameter given as one string becomes a one-element list
AsList(x) == IF x.t = "str" THEN <<x.v>> ELSE x.v

\* a JSON object, on which .get works; on any other value parameters.get
\* raises AttributeError inside the try of execute_action
IsDict(x) == "t" \notin DOMAIN x

\* EmailNotificationPlugin.execute_action called when the clock is t
EmailExecute(self, action_request, t, o) ==
    IF ~self.running
    THEN Returned(_create_error_result(Email, action_request.id, Fmt(<<"Plugin is not running">>), t, t),
                  0, t)
    ELSE
    LET action_id == action_request.id
        parameters == Get(action_request, "parameters", EmptyDict)
        to_emails == Get(parameters, "to", List(<<>>))
        cc_emails == Get(parameters, "cc", List(<<>>))
        bcc_emails == Get(parameters, "bcc", List(<<>>))
        subject == Get(parameters, "subject", "Stavily Notification")
        result == RunningResult(Email, action_id, t)
    IN  IF ~IsDict(parameters)
        THEN Returned(Finalize(Update(result,
                        [status |-> "failed",
                         error |-> Fmt(<<"'str' object has no attribute 'get'">>)]),
                        t, t), 0, t)
        ELSE
        IF Len(to_emails.v) = 0
        THEN Returned(_create_error_result(Email, action_id,
                         Fmt(<<"At least one recipient email is required">>), t, t), 0, t)
        ELSE
        LET email_result == SendEmail(self, o, t)
            end == t + email_result.took
        IN  IF email_result.success
            THEN Returned(Finalize(Update(result,
                            [status |-> "completed",
                             data |-> [recipients |-> AsList(to_emails),
                                       cc |-> AsList(cc_emails), bcc |-> AsList(bcc_emails),
                                       subject |-> subject,
                                       message_id |-> email_result.message_id,
                                       attachments_count |-> 0,
                                       demo_mode |-> self.demo_mode]]), t, end), 1, end)
            ELSE Returned(Finalize(Update(result,
                            [status |-> "failed", error |-> email_result.error,
                             data |-> [recipients |-> AsList(to_emails),
                                       subject |-> subject]]), t, end), 1, end)

\* an exception that leaves execute_action: nothing is returned
Raised(error, t) == [raised |-> error, invoked |-> 0, end |-> t]

\* plugin.execute_action(action_request) of an action plugin; action_request["id"]
\* is read first, running or not, and raises KeyError when the request has no id
execute_action(k, self, action_request, t, o) ==
    IF "id" \notin DOMAIN action_request THEN Raised("'id'", t)
    ELSE IF k = Shell THEN ShellExecute(self, action_request, t, o)
    ELSE EmailExecute(self, action_request, t, o)

-----------------------------------------------------------------------------
(* The inputs the commands are drawn from *)

DiskConfigs ==
    { EmptyDict,
      [threshold |-> Num(85), critical_threshold |-> Num(95), alert_cooldown |-> Num(2)],
      [threshold |-> Num(95), critical_threshold |-> Num(95)],
      [threshold |-> Num(90), critical_threshold |-> Num(80), alert_cooldown |-> Num(1)] }

MemoryConfigs ==
    { EmptyDict,
      [memory_threshold |-> Num(80), swap_threshold |-> Num(80), alert_cooldown |-> Num(2)],
      [memory_threshold |-> Num(101)],
      [swap_threshold |-> Num(0 - 1), alert_cooldown |-> Num(1)],
      [interval |-> Num(0)],
      [alert_cooldown |-> Str("abc")],
      [alert_cooldown |-> Num(0)] }

ShellConfigs ==
    { EmptyDict,
      [allowed_commands |-> List(<<"ls", "echo">>), timeout |-> Num(30),
       max_output_size |-> Num(4)],
      [timeout |-> Num(0)],
      [max_output_size |-> Str("abc")] }

EmailConfigs ==
    { EmptyDict,
      [smtp_server |-> Str("smtp.example.com"), username |-> Str("user"),
       password |-> Str("secret")],
      [smtp_server |-> Str("smtp.example.com"), username |-> Str("user"),
       password |-> Str("")],
      [smtp_server |-> Str("smtp.example.com"), username |-> Str("user"),
       password |-> Str("secret"), from_email |-> Str("")],
      [smtp_port |-> Str("abc")] }

Configs(k) ==
    CASE k = Disk -> DiskConfigs
      [] k = Memory -> MemoryConfigs
      [] k = Shell -> ShellConfigs
      [] k = Email -> EmailConfigs

Part(mountpoint, fstype, percent) ==
    [mountpoint |-> mountpoint, fstype |-> fstype, percent |-> percent]

\* what psutil may report
Readings(k) ==
    IF k = Disk
    THEN { DiskReading(<<Part("/", "ext4", 50), Part("/run", "tmpfs", 99)>>),
           DiskReading(<<Part("/", "ext4", 97), Part("/var", "ext4", 97)>>),
           DiskReading(<<Part("/", "ext4", 85), Part("/var", "ext4", 97)>>),
           PartlyFailedReading(<<Part("/", "ext4", 97), Part("/var", "ext4", 97)>>,
                               "/", "OSError"),
           PartlyFailedReading(<<Part("/", "ext4", 97), Part("/var", "ext4", 97)>>,
                               "/var", "Error"),
           FailedReading }
    ELSE { MemoryReading(50, 50), MemoryReading(90, 50), MemoryReading(50, 95),
           MemoryReading(97, 95), MemoryReading(85, 90), MemoryReading(85, 95),
           FailedReading }

ShellRequests ==
    { [id |-> "a1", parameters |-> [command |-> "ls -la", timeout |-> Num(1)]],
      [id |-> "a7", parameters |-> [command |-> "ls -la", timeout |-> None]],
      [id |-> "a2", parameters |-> [command |-> "rm -rf /"]],
      [id |-> "a3", parameters |-> EmptyDict],
      [id |-> "a4", parameters |-> [command |-> "echo hi", working_dir |-> "/etc"]],
      [id |-> "a5", parameters |-> [command |-> "cat x; chmod 777 y"]],
      [id |-> "a6", parameters |-> [command |-> "/bin/dd if=x"]] }

EmailRequests ==
    { [id |-> "e1", parameters |-> [to |-> Str("a@x"), subject |-> "Alert"]],
      [id |-> "e2", parameters |-> EmptyDict],
      [id |-> "e3", parameters |-> [to |-> List(<<"a@x", "b@x">>), cc |-> Str("c@x")]],
      [id |-> "e4", parameters |-> Str("abc")] }

\* a command without action_request gives the handler {}, which has no id
Requests(k) == (IF k = Shell THEN ShellRequests ELSE EmailRequests) \cup {EmptyDict}

\* what the Action Source may do
Outcomes(k, self) ==
    IF k = Shell /\ ~self.demo_mode
    THEN { [how |-> "nodir"], [how |-> "noaccess"], [how |-> "raise"],
           [how |-> "child", runs |-> 0, rc |-> 0, stdout |-> "abcdef", stderr |-> ""],
           [how |-> "child", runs |-> 1, rc |-> 1, stdout |-> "abcd", stderr |-> "error"],
           [how |-> "child", runs |-> 2, rc |-> 0, stdout |-> "", stderr |-> ""],
           [how |-> "hang"] }
    ELSE { [fail |-> FALSE, runs |-> 1], [fail |-> TRUE, runs |-> 0] }

-----------------------------------------------------------------------------
(* main(): one action per command line read from stdin *)

NoLine == [none |-> TRUE]

\* the last line on stdout when main() starts to read.  The __main__ block of
\* email_notification.py prints two lines of plain text ("this has worked",
\* "Executed at <time>") before it comes to main(); its return(0) between them
\* and main() is outside any function, which the compiler rejects, so the file
\* as shipped prints nothing and serves nothing.  The model follows the
\* statements of the block as written, the return left out, as it must for
\* every statement about the email plugin's commands.
EntryLine(k) == IF k = Email THEN [text |-> Fmt(<<"Executed at ", "time">>)] ELSE NoLine

\* the line main() prints for a line that is not JSON
InvalidAnswer == [error |-> Fmt(<<"Invalid JSON command">>)]

\* the line main()'s last handler prints for an exception e: f"Plugin error: {str(e)}"
PluginError(e) == [error |-> Fmt(<<"Plugin error: ", e>>)]

\* the line main() prints for a line of JSON that is not an object
NotAnObjectAnswer == PluginError("object has no attribute 'get'")

\* the actions main() recognizes for a plugin kind
Recognized(k) ==
    {"get_info", "initialize", "start", "stop", "get_status", "get_health"}
    \cup (IF k \in TriggerKinds THEN {"detect_triggers", "get_trigger_config"}
          ELSE {"execute_action", "get_action_config"})

\* action names a caller may send that main() may not recognize; "None" is a
\* command without an action field
OtherActions ==
    {"None", "detect_triggers", "get_trigger_config", "execute_action",
     "get_action_config"}

Init ==
    /\ kind \in Kinds
    /\ plugin \in (CASE kind = Disk -> {NewDisk}
                     [] kind = Memory -> {NewMemory}
                     [] kind = Shell -> {NewShell(d) : d \in BOOLEAN}
                     [] kind = Email -> {NewEmail(d) : d \in BOOLEAN})
    /\ now = 0
    /\ metrics = NoReading
    /\ response = EntryLine(kind)
    /\ invoked = 0
    /\ pc = "readline"

\* time passes between two commands
Tick ==
    /\ pc = "readline"
    /\ now < MaxTime
    /\ now' = now + 1
    /\ UNCHANGED <<pc, kind,plugin, metrics, response, invoked>>

\* {"action": "get_info"}
GetInfo ==
    /\ pc = "readline"
    /\ response' = [action |-> "get_info", success |-> TRUE,
                    data |-> [id |-> kind,
                              type |-> IF kind \in TriggerKinds THEN "trigger" ELSE "action",
                              version |-> "1.0.0"]]
    /\ metrics' = NoReading
    /\ invoked' = 0
    /\ UNCHANGED <<pc, kind,plugin, now>>

\* {"action": "initialize", "config": {...}}
Initialize ==
    \E config \in Configs(kind) :
        LET r == initialize(kind, plugin, config)
        IN  /\ pc = "readline"
            /\ plugin' = r.self
            /\ response' = [action |-> "initialize", success |-> r.ret]
            /\ metrics' = NoReading
            /\ invoked' = 0
            /\ UNCHANGED <<pc, kind,now>>

\* {"action": "start"}
Start ==
    LET r == start(plugin, now)
    IN  /\ pc = "readline"
        /\ plugin' = r.self
        /\ response' = [action |-> "start", success |-> r.ret]
        /\ metrics' = NoReading
        /\ invoked' = 0
        /\ UNCHANGED <<pc, kind,now>>

\* {"action": "stop"}
Stop ==
    LET r == stop(plugin)
    IN  /\ pc = "readline"
        /\ plugin' = r.self
        /\ response' = [action |-> "stop", success |-> r.ret]
        /\ metrics' = NoReading
        /\ invoked' = 0
        /\ UNCHANGED <<pc, kind,now>>

\* {"action": "get_status"}
GetStatus ==
    /\ pc = "readline"
    /\ response' = [action |-> "get_status", success |-> TRUE, data |-> get_status(plugin)]
    /\ metrics' = NoReading
    /\ invoked' = 0
    /\ UNCHANGED <<pc, kind,plugin, now>>

\* a get_health that takes the moment of the check for the start of the plugin
GetHealthRestamps ==
    /\ pc = "readline"
    /\ \E m \in (IF kind \in TriggerKinds THEN Readings(kind) ELSE {NoReading}) :
        /\ response' = IF kind = Memory /\ ~m.ok
                       THEN PluginError("psutil")
                       ELSE [action |-> "get_health", success |-> TRUE,
                             data |-> get_health(plugin, now)]
    /\ plugin' = [plugin EXCEPT !.start_time = <<now>>]
    /\ metrics' = NoReading
    /\ invoked' = 0
    /\ UNCHANGED <<pc, kind, now>>

\* {"action": "get_health"}: the monitors read psutil; the memory monitor does
\* not catch its error, which reaches main()'s handler
GetHealth ==
    /\ pc = "readline"
    /\ \E m \in (IF kind \in TriggerKinds THEN Readings(kind) ELSE {NoReading}) :
        /\ response' = IF kind = Memory /\ ~m.ok
                       THEN PluginError("psutil")
                       ELSE [action |-> "get_health", success |-> TRUE,
                             data |-> get_health(plugin, now)]
    /\ metrics' = NoReading
    /\ invoked' = 0
    /\ UNCHANGED <<pc, kind,plugin, now>>

\* {"action": "detect_triggers"} sent to a monitoring plugin
DetectTriggers ==
    /\ pc = "readline"
    /\ kind \in TriggerKinds
    /\ \E m \in Readings(kind) :
        LET r == detect_triggers(kind, plugin, m, now)
        IN  /\ plugin' = r.self
            /\ metrics' = IF plugin.running THEN m ELSE NoReading
            /\ response' = [action |-> "detect_triggers", success |-> TRUE, data |-> r.ret]
    /\ invoked' = 0
    /\ UNCHANGED <<pc, kind,now>>

\* {"action": "get_trigger_config"} sent to a monitoring plugin
GetTriggerConfig ==
    /\ pc = "readline"
    /\ kind \in TriggerKinds
    /\ response' = [action |-> "get_trigger_config", success |-> TRUE,
                    data |-> [required |-> <<>>,
                              interval_minimum |-> 1, alert_cooldown_minimum |-> 60]]
    /\ metrics' = NoReading
    /\ invoked' = 0
    /\ UNCHANGED <<pc, kind,plugin, now>>

\* execute_action whose response reports the outcome of the action as success
ExecuteActionReportsStatus ==
    /\ pc = "readline"
    /\ kind \in ActionKinds
    /\ \E action_request \in Requests(kind), o \in Outcomes(kind, plugin) :
        LET r == execute_action(kind, plugin, action_request, now, o)
        IN  /\ r.end <= MaxTime
            /\ now' = r.end
            /\ invoked' = r.invoked
            /\ pc' = IF "waits" \in DOMAIN r THEN "communicate" ELSE pc
            /\ response' = IF "waits" \in DOMAIN r THEN response
                           ELSE IF "raised" \in DOMAIN r
                           THEN PluginError(r.raised)
                           ELSE [action |-> "execute_action",
                                 success |-> r.ret.status = "completed",
                                 data |-> r.ret]
    /\ metrics' = NoReading
    /\ UNCHANGED <<kind, plugin>>

\* {"action": "execute_action", "action_request": {...}} sent to an action plugin
ExecuteAction ==
    /\ pc = "readline"
    /\ kind \in ActionKinds
    /\ \E action_request \in Requests(kind), o \in Outcomes(kind, plugin) :
        LET r == execute_action(kind, plugin, action_request, now, o)
        IN  /\ r.end <= MaxTime
            /\ now' = r.end
            /\ invoked' = r.invoked
            /\ pc' = IF "waits" \in DOMAIN r THEN "communicate" ELSE pc
            /\ response' = IF "waits" \in DOMAIN r THEN response
                           ELSE IF "raised" \in DOMAIN r
                           THEN PluginError(r.raised)
                           ELSE [action |-> "execute_action", success |-> TRUE,
                                 data |-> r.ret]
    /\ metrics' = NoReading
    /\ UNCHANGED <<kind, plugin>>

\* {"action": "get_action_config"} sent to an action plugin
GetActionConfig ==
    /\ pc = "readline"
    /\ kind \in ActionKinds
    /\ response' = [action |-> "get_action_config", success |-> TRUE,
                    data |-> [required |-> IF kind = Shell THEN <<"command">>
                                           ELSE <<"to", "subject">>]]
    /\ metrics' = NoReading
    /\ invoked' = 0
    /\ UNCHANGED <<pc, kind,plugin, now>>

\* an unknown action that also stops the plugin
UnknownActionStops ==
    /\ pc = "readline"
    /\ \E action \in OtherActions \ Recognized(kind) :
        response' = [action |-> action, success |-> FALSE,
                     error |-> "Unknown action: " \o action]
    /\ plugin' = stop(plugin).self
    /\ metrics' = NoReading
    /\ invoked' = 0
    /\ UNCHANGED <<pc, kind, now>>

\* a command whose action main() does not recognize for this plugin
UnknownAction ==
    /\ pc = "readline"
    /\ \E action \in OtherActions \ Recognized(kind) :
        response' = [action |-> action, success |-> FALSE,
                     error |-> "Unknown action: " \o action]
    /\ metrics' = NoReading
    /\ invoked' = 0
    /\ UNCHANGED <<pc, kind,plugin, now>>

\* a line that is not JSON and that also resets the plugin to a new instance
InvalidJSONResets ==
    /\ pc = "readline"
    /\ response' = InvalidAnswer
    /\ plugin' = (CASE kind = Disk -> NewDisk
                    [] kind = Memory -> NewMemory
                    [] kind = Shell -> NewShell(plugin.demo_mode)
                    [] kind = Email -> NewEmail(plugin.demo_mode))
    /\ metrics' = NoReading
    /\ invoked' = 0
    /\ UNCHANGED <<pc, kind, now>>

\* a line that is not JSON
InvalidJSON ==
    /\ pc = "readline"
    /\ response' = InvalidAnswer
    /\ metrics' = NoReading
    /\ invoked' = 0
    /\ UNCHANGED <<pc, kind,plugin, now>>

\* a line of JSON that is not an object ([], 5, "x"): command.get raises
\* AttributeError, which main()'s last handler answers
NotAnObject ==
    /\ pc = "readline"
    /\ response' = NotAnObjectAnswer
    /\ metrics' = NoReading
    /\ invoked' = 0
    /\ UNCHANGED <<pc, kind, plugin, now>>

\* readline() returns "" at the end of the input: `if not line: break`
EndOfInput ==
    /\ pc = "readline"
    /\ pc' = "end of input"
    /\ UNCHANGED <<kind, plugin, now, metrics, response, invoked>>

\* an empty line, or one of white space only: strip() leaves "" and the same
\* `if not line: break` ends the loop though the input is still open
BlankLine ==
    /\ pc = "readline"
    /\ pc' = "blank line"
    /\ UNCHANGED <<kind, plugin, now, metrics, response, invoked>>

\* KeyboardInterrupt while the loop waits or works: break
Interrupt ==
    /\ pc \in {"readline", "communicate"}
    /\ pc' = "interrupt"
    /\ UNCHANGED <<kind, plugin, now, metrics, response, invoked>>

Next ==
    \/ Tick
    \/ GetInfo
    \/ Initialize
    \/ Start
    \/ Stop
    \/ GetStatus
    \/ GetHealth
    \/ DetectTriggers
    \/ GetTriggerConfig
    \/ ExecuteAction
    \/ GetActionConfig
    \/ UnknownAction
    \/ InvalidJSON
    \/ NotAnObject
    \/ EndOfInput
    \/ BlankLine
    \/ Interrupt

\* any of the four plugins
Spec == Init /\ [][Next]_vars

\* a monitoring plugin (disk-space-monitor or memory-monitor)
InitTrigger == Init /\ kind \in TriggerKinds

NextTrigger ==
    \/ Tick
    \/ GetInfo
    \/ Initialize
    \/ Start
    \/ Stop
    \/ GetStatus
    \/ GetHealth
    \/ DetectTriggers
    \/ GetTriggerConfig
    \/ UnknownAction
    \/ InvalidJSON
    \/ NotAnObject
    \/ EndOfInput
    \/ BlankLine
    \/ Interrupt

SpecTrigger == InitTrigger /\ [][NextTrigger]_vars

\* an action plugin (shell-command or email-notification)
InitAction == Init /\ kind \in ActionKinds

NextAction ==
    \/ Tick
    \/ GetInfo
    \/ Initialize
    \/ Start
    \/ Stop
    \/ GetStatus
    \/ GetHealth
    \/ ExecuteAction
    \/ GetActionConfig
    \/ UnknownAction
    \/ InvalidJSON
    \/ NotAnObject
    \/ EndOfInput
    \/ BlankLine
    \/ Interrupt

SpecAction == InitAction /\ [][NextAction]_vars

-----------------------------------------------------------------------------
(* A host that polls a started monitor for ever.  The code only looks at    *)
(* differences of times (_should_alert), so the clock is kept in 0..MaxTime *)
(* by sliding the origin of time once `now` would pass MaxTime.             *)

Max(a, b) == IF a >= b THEN a ELSE b

\* the instance as __init__ leaves it
NewTrigger(k) == IF k = Disk THEN NewDisk ELSE NewMemory

\* the configs of the model that initialize accepts and whose alert_cooldown
\* ends within the range of the clock
PollConfigs(k) ==
    {c \in Configs(k) :
        /\ initialize(k, NewTrigger(k), c).ret
        /\ Get(c, "alert_cooldown", Num(MaxTime + 1)).v \in 1..MaxTime}

\* the times of the instance moved back by s seconds; an alert older than
\* alert_cooldown is kept at that age, where _should_alert no longer tells it
\* from an older one
Slide(self, s, t) ==
    [self EXCEPT
        !.last_alert_time = [key \in DOMAIN @ |-> Max(@[key] - s, t - s - self.alert_cooldown)],
        !.start_time = IF @ = <<>> THEN @ ELSE <<Max(@[1] - s, 0)>>]

\* initialize(config) and start() have succeeded at time 0
InitPoll ==
    /\ kind \in TriggerKinds
    /\ plugin \in {start(initialize(kind, NewTrigger(kind), c).self, 0).self :
                     c \in PollConfigs(kind)}
    /\ now = 0
    /\ metrics = NoReading
    /\ response = [action |-> "start", success |-> TRUE]
    /\ invoked = 0
    /\ pc = "readline"

\* d seconds after the last command the host sends {"action": "detect_triggers"}
Poll ==
    /\ pc = "readline"
    /\ \E d \in 1..MaxTime, m \in Readings(kind) :
        LET t == now + d
            r == detect_triggers(kind, plugin, m, t)
            s == Max(t - MaxTime, 0)
        IN  /\ plugin' = Slide(r.self, s, t)
            /\ now' = t - s
            /\ metrics' = m
            /\ response' = [action |-> "detect_triggers", success |-> TRUE, data |-> r.ret]
    /\ invoked' = 0
    /\ UNCHANGED <<pc, kind>>

\* the host never stops polling
\* what psutil may report of two filesystems whose usage moves between below
\* the warning threshold, warning and critical
LevelReadings ==
    {DiskReading(<<Part("/", "ext4", a), Part("/var", "ext4", b)>>) :
        a \in {50, 85, 97}, b \in {50, 85, 97}}

\* a started disk-space monitor
InitLevels == InitPoll /\ kind = Disk

\* d seconds after the last command the host sends {"action": "detect_triggers"}
\* to the disk-space monitor, whose filesystems may have changed level
PollLevels ==
    /\ pc = "readline"
    /\ kind = Disk
    /\ \E d \in 1..MaxTime, m \in LevelReadings :
        LET t == now + d
            r == DiskDetect(plugin, m, t)
            s == Max(t - MaxTime, 0)
        IN  /\ plugin' = Slide(r.self, s, t)
            /\ now' = t - s
            /\ metrics' = m
            /\ response' = [action |-> "detect_triggers", success |-> TRUE, data |-> r.ret]
    /\ invoked' = 0
    /\ UNCHANGED <<pc, kind>>

SpecLevels == InitLevels /\ [][PollLevels]_vars

SpecPoll == InitPoll /\ [][Poll]_vars /\ WF_vars(Poll)

-----------------------------------------------------------------------------
(* What the claims speak of *)

\* the last line printed answers a command with this action
Answers(r, action) == "action" \in DOMAIN r /\ r.action = action

\* the step is a detect_triggers command: the clock stands still during one
\* and the loop goes on after it
DetectStep == pc' = "readline" /\ now' = now /\ Answers(response', "detect_triggers")

\* the response carries a TriggerEvent
IsEvent(r) == Answers(r, "detect_triggers") /\ r.data # None

\* the alert key of an emitted event
EventKey(k, event) ==
    IF k = Disk
    THEN DiskAlertKey(event.data.filesystem.mountpoint, event.data.alert_level)
    ELSE event.data.alert_type

\* the alert keys of the sub-metrics of reading m that are in alert range
AlertKeys(k, self, m) ==
    IF ~m.read \/ ~m.ok THEN {}
    ELSE IF k = Disk
    THEN {DiskAlertKey(fs.mountpoint, DiskAlertLevel(self, fs.percent)) :
            fs \in {x \in Elems(_get_disk_info(self, m)) :
                       DiskAlertLevel(self, x.percent) # "skip"}}
    ELSE (IF m.memory_percent > self.memory_threshold THEN {"memory"} ELSE {})
         \cup (IF m.swap_percent > self.swap_threshold THEN {"swap"} ELSE {})

\* the cooldown entries a step writes
Written ==
    {k \in DOMAIN plugin'.last_alert_time :
        k \notin DOMAIN plugin.last_alert_time
        \/ plugin'.last_alert_time[k] # plugin.last_alert_time[k]}

\* the effective thresholds of a disk config are out of order
BadOrder(config) ==
    Get(config, "threshold", Num(85)).v >= Get(config, "critical_threshold", Num(95)).v

-----------------------------------------------------------------------------
(* The claims *)

\* C1: once the status is "error", only an initialize command changes it;
\* start, stop and every other command leave it "error".
C1_ErrorLeftOnlyByInitialize ==
    [][(plugin.status = "error" /\ plugin'.status # "error")
         => Answers(response', "initialize")]_vars

\* C2: the status becomes "running" only by a start command issued while the
\* status is "initialized".
C2_RunningOnlyFromInitialized ==
    [][(plugin.status # "running" /\ plugin'.status = "running")
         => (plugin.status = "initialized" /\ Answers(response', "start"))]_vars

\* C3: in every reachable state, start() followed at once by a second start()
\* leaves get_status equal to "running", and both calls return success.
C3_StartTwice ==
    LET first == start(plugin, now)
        second == start(first.self, now)
    IN  first.ret /\ second.ret /\ get_status(second.self) = "running"

\* C4: an initialize that is rejected after a config was accepted changes
\* nothing of the plugin but its status, which becomes "error": the accepted
\* config and the settings derived from it stay.
C4_RejectedInitializeKeepsConfig ==
    [][(plugin.status = "initialized" /\ Answers(response', "initialize")
        /\ ~response'.success)
         => plugin' = [plugin EXCEPT !.status = "error"]]_vars

\* C5: in the disk-space monitor, an initialize whose config has
\* threshold >= critical_threshold returns failure and the status is "error",
\* whatever the state before.
C5_BadOrderRejected ==
    (kind = Disk /\ Answers(response, "initialize") /\ BadOrder(plugin.config))
        => (~response.success /\ plugin.status = "error")

\* C5 witness: such an initialize was answered by a plugin that was running
C5_Witness ==
    /\ kind = Disk
    /\ Answers(response, "initialize")
    /\ BadOrder(plugin.config)
    /\ plugin.running
    /\ plugin.status = "error"

\* C6: get_health reports "healthy" exactly when get_status is "running".
C6_HealthyIffRunning ==
    (get_health(plugin, now).status = "healthy") <=> (get_status(plugin) = "running")

\* C7: in the action plugins, an execute_action issued while the status is not
\* "running" returns a failed result and the Action Source is not invoked.
C7_NotRunningFailsFast ==
    (kind \in ActionKinds /\ Answers(response, "execute_action")
        /\ get_status(plugin) # "running")
        => (response.data.status = "failed" /\ invoked = 0)

\* C8: in the monitoring plugins, a detect_triggers issued while the status is
\* not "running" returns no event and leaves the cooldown table as it was.
C8_NotRunningDetectsNothing ==
    [][(DetectStep /\ get_status(plugin) # "running")
         => (response'.data = None /\ plugin'.last_alert_time = plugin.last_alert_time)]_vars

\* C9: a detect_triggers call emits an event for a key that has a recorded alert
\* only if at least alert_cooldown seconds (the value in effect at the call)
\* have passed since that alert, and records the call's time under the key; and
\* when a key in alert range was last alerted exactly alert_cooldown seconds
\* ago, the call is not suppressed: it emits an event.
C9_Cooldown ==
    [][DetectStep =>
         /\ (response'.data # None =>
               LET key == EventKey(kind, response'.data)
               IN  /\ plugin'.last_alert_time[key] = now
                   /\ (key \in DOMAIN plugin.last_alert_time
                         => now - plugin.last_alert_time[key] >= plugin.alert_cooldown))
         /\ ((plugin.running
              /\ \E key \in AlertKeys(kind, plugin, metrics') :
                    /\ key \in DOMAIN plugin.last_alert_time
                    /\ now - plugin.last_alert_time[key] = plugin.alert_cooldown)
               => response'.data # None)]_vars

\* C9 witness: a poll returned no event for a key in alert range because its
\* last alert is less than alert_cooldown seconds old
C9_Witness ==
    /\ Answers(response, "detect_triggers")
    /\ response.data = None
    /\ plugin.running
    /\ \E key \in AlertKeys(kind, plugin, metrics) :
          /\ key \in DOMAIN plugin.last_alert_time
          /\ now - plugin.last_alert_time[key] > 0
          /\ now - plugin.last_alert_time[key] < plugin.alert_cooldown

\* C10: a detect_triggers call writes at most one cooldown entry, the one of
\* the single event it returns, and none when it returns no event.
C10_AtMostOneEvent ==
    [][DetectStep =>
         /\ Cardinality(Written) <= 1
         /\ (response'.data = None => Written = {})
         /\ (response'.data # None => Written \subseteq {EventKey(kind, response'.data)})]_vars

\* C10 witness: an event was returned while another sub-metric of the same
\* reading was in alert range and had never alerted
C10_Witness ==
    /\ IsEvent(response)
    /\ \E key \in AlertKeys(kind, plugin, metrics) :
          /\ key # EventKey(kind, response.data)
          /\ key \notin DOMAIN plugin.last_alert_time

\* the alert keys the readings of the model can give
PollKeys ==
    {"memory", "swap"}
    \cup {DiskAlertKey(p, l) : p \in {"/", "/var"}, l \in {"warning", "critical"}}

\* C11: under endless polling with time passing between the polls, a
\* sub-metric that from some poll on is always in alert range together with
\* at least one other gets an event again and again: it is never starved.
C11_NoStarvation ==
    \A key \in PollKeys :
        <>[](/\ key \in AlertKeys(kind, plugin, metrics)
             /\ Cardinality(AlertKeys(kind, plugin, metrics)) >= 2)
          => []<>(IsEvent(response) /\ EventKey(kind, response.data) = key)

\* C12: an event of the disk-space monitor for a filesystem whose usage is at
\* or above critical_threshold is a critical one: type disk.space.critical,
\* alert_level critical, threshold critical_threshold, severity critical.
C12_CriticalClassified ==
    (/\ kind = Disk
     /\ IsEvent(response)
     /\ response.data.data.usage_percent >= plugin.critical_threshold)
      => /\ response.data.type = "disk.space.critical"
         /\ response.data.data.alert_level = "critical"
         /\ response.data.data.threshold = plugin.critical_threshold
         /\ response.data.severity = "critical"

\* C12 witness: after an accepted initialize and a start, an event for a
\* filesystem that is above both thresholds
C12_Witness ==
    /\ kind = Disk
    /\ plugin.status = "running"
    /\ plugin.config # EmptyDict
    /\ plugin.threshold < plugin.critical_threshold
    /\ IsEvent(response)
    /\ response.data.data.usage_percent >= plugin.critical_threshold

\* the sub-metrics of a reading in the order detect_triggers goes through
\* them, each with its usage, the threshold it is held against and its alert
\* key: the monitored filesystems in the order of the Metrics Source (held
\* against critical_threshold once they reach it), or memory before swap
SubMetrics(k, self, m) ==
    IF ~m.read \/ ~m.ok THEN <<>>
    ELSE IF k = Disk
    THEN LET disk_info == _get_disk_info(self, m)
         IN  [i \in 1..Len(disk_info) |->
                LET fs == disk_info[i]
                    critical == fs.percent >= self.critical_threshold
                IN  [name |-> fs.mountpoint, usage |-> fs.percent,
                     threshold |-> IF critical THEN self.critical_threshold
                                   ELSE self.threshold,
                     key |-> DiskAlertKey(fs.mountpoint,
                                          IF critical THEN "critical" ELSE "warning")]]
    ELSE << [name |-> "memory", usage |-> m.memory_percent,
             threshold |-> self.memory_threshold, key |-> "memory"],
            [name |-> "swap", usage |-> m.swap_percent,
             threshold |-> self.swap_threshold, key |-> "swap"] >>

\* a sub-metric is in alert range: its usage is at or above its threshold
InRange(sm) == sm.usage >= sm.threshold

\* the places in SubMetrics of those in alert range whose key is off cooldown at t
Due(k, self, m, t) ==
    {i \in DOMAIN SubMetrics(k, self, m) :
        /\ InRange(SubMetrics(k, self, m)[i])
        /\ _should_alert(self, SubMetrics(k, self, m)[i].key, t)}

\* the sub-metric an event is about
EventName(k, event) ==
    IF k = Disk THEN event.data.filesystem.mountpoint ELSE event.data.alert_type

\* C13: a running monitor skips a sub-metric exactly when its usage is
\* strictly below its threshold: a poll that finds a sub-metric at or above
\* its threshold and off cooldown returns an event, and every event returned
\* is for a sub-metric at or above its threshold.
C13_AlertRangeFromThreshold ==
    [][(DetectStep /\ plugin.running) =>
         /\ (Due(kind, plugin, metrics', now) # {} => response'.data # None)
         /\ (response'.data # None =>
               \E i \in DOMAIN SubMetrics(kind, plugin, metrics') :
                  /\ SubMetrics(kind, plugin, metrics')[i].name
                        = EventName(kind, response'.data)
                  /\ InRange(SubMetrics(kind, plugin, metrics')[i]))]_vars

\* C14: no command takes a key out of the cooldown table or moves the time
\* stored under a key back, and an entry is written only by the
\* detect_triggers that emits the event of that key.
C14_CooldownTableKept ==
    [][/\ \A key \in DOMAIN plugin.last_alert_time :
            /\ key \in DOMAIN plugin'.last_alert_time
            /\ plugin'.last_alert_time[key] >= plugin.last_alert_time[key]
       /\ (Written # {} =>
             /\ DetectStep
             /\ IsEvent(response')
             /\ Written = {EventKey(kind, response'.data)})]_vars

\* C14 witness: the plugin was stopped, or an initialize was rejected, after
\* alerts at two different times, and the table still holds them
C14_Witness ==
    /\ \/ Answers(response, "stop")
       \/ (Answers(response, "initialize") /\ ~response.success)
    /\ \E k1, k2 \in DOMAIN plugin.last_alert_time :
          plugin.last_alert_time[k1] < plugin.last_alert_time[k2]

\* the id of the last event emitted under each alert key: detect_triggers
\* writes last_alert_time[key] when it emits the event of that key, and the
\* event's id is made of the same key and second
LastIds(k, self) ==
    IF k = Disk
    THEN {"disk-" \o l \o "-" \o ReplaceSlash(p) \o "-"
            \o ToString(self.last_alert_time[DiskAlertKey(p, l)]) :
            <<p, l>> \in {x \in {"/", "/var"} \X {"warning", "critical"} :
                            DiskAlertKey(x[1], x[2]) \in DOMAIN self.last_alert_time}}
    ELSE {"memory-" \o key \o "-" \o ToString(self.last_alert_time[key]) :
            key \in DOMAIN self.last_alert_time}

\* C15: an event a monitor emits never has the id of an event it emitted
\* before.
C15_EventIdsDiffer ==
    [][(DetectStep /\ IsEvent(response'))
         => response'.data.id \notin LastIds(kind, plugin)]_vars

\* the least element of a non-empty set of numbers
Least(S) == CHOOSE i \in S : \A j \in S : i <= j

\* C16: the event a detect_triggers call emits is for the first sub-metric, in
\* scan order, that is in alert range and off cooldown, and the time of the
\* call is stored in the cooldown table under the alert key of that sub-metric.
C16_FirstDueEmitted ==
    [][(DetectStep /\ IsEvent(response')) =>
         /\ Due(kind, plugin, metrics', now) # {}
         /\ LET first == SubMetrics(kind, plugin, metrics')
                            [Least(Due(kind, plugin, metrics', now))]
            IN  /\ EventName(kind, response'.data) = first.name
                /\ EventKey(kind, response'.data) = first.key
                /\ first.key \in DOMAIN plugin'.last_alert_time
                /\ plugin'.last_alert_time[first.key] = now]_vars

\* C17: a command with a recognized action is answered by a line that
\* carries that action and a success field: the only lines printed without
\* them answer lines that are no commands (not JSON, or not a JSON object).
C17_RecognizedAnswered ==
    \/ response = NoLine
    \/ response \in {InvalidAnswer, NotAnObjectAnswer}
    \/ /\ {"action", "success"} \subseteq DOMAIN response
       /\ response.success \in BOOLEAN

\* C18: the command loop ends only when the input is closed or an interrupt
\* arrives, never because of the content of a line.
C18_LoopNeverStopsOnALine ==
    [][(pc = "readline" /\ pc' # "readline")
         => pc' \in {"end of input", "interrupt"}]_vars

C20_UnknownActionRejected ==
    [][(/\ pc' = "readline"
        /\ "action" \in DOMAIN response'
        /\ response'.action \notin Recognized(kind))
         => /\ DOMAIN response' = {"action", "success", "error"}
            /\ response'.success = FALSE
            /\ response'.error = "Unknown action: " \o response'.action
            /\ plugin' = plugin]_vars

\* C20 witness: execute_action was sent to a running monitor that has alerts
\* in its cooldown table, and was answered as unknown
C20_Witness ==
    /\ kind \in TriggerKinds
    /\ Answers(response, "execute_action")
    /\ ~response.success
    /\ plugin.running
    /\ DOMAIN plugin.last_alert_time # {}

C22_SuccessIsDispatch ==
    [][/\ (Answers(response', "detect_triggers") /\ "data" \in DOMAIN response')
            => response'.success = TRUE
       /\ (Answers(response', "execute_action") /\ "data" \in DOMAIN response')
            => response'.success = TRUE
       /\ (pc' = "readline" /\ now' = now)
            => /\ Answers(response', "initialize")
                    => \E config \in Configs(kind) :
                          /\ plugin' = initialize(kind, plugin, config).self
                          /\ response'.success = initialize(kind, plugin, config).ret
               /\ Answers(response', "start")
                    => response'.success = start(plugin, now).ret
               /\ Answers(response', "stop")
                    => response'.success = stop(plugin).ret]_vars

\* C22 witness: an execute_action response with success true carries an
\* ActionResult whose status is failed after the Action Source was invoked
C22_Witness ==
    /\ Answers(response, "execute_action")
    /\ response.success
    /\ response.data.status = "failed"
    /\ invoked = 1

\* the request an ActionResult answers (the ids of the requests are distinct)
RequestOf(k, id) == CHOOSE q \in Requests(k) : "id" \in DOMAIN q /\ q.id = id

\* the command and the working directory the shell plugin takes from a request
CommandOf(q) == Get(Get(q, "parameters", EmptyDict), "command", "")
WorkingDirOf(q) == Get(Get(q, "parameters", EmptyDict), "working_dir", "/tmp")

\* what makes the shell plugin refuse a request: the blocked or unlisted
\* executable, the working directory outside the allowed paths, the dangerous
\* pattern; a request without command has nothing to name
Offences(self, q) ==
    LET c == CommandOf(q)
        mc == IF c = "" THEN "" ELSE MainCommandOf[c]
    IN  IF mc = "" THEN {}
        ELSE (IF mc \in Elems(self.blocked_commands) THEN {mc} ELSE {})
             \cup (IF self.allowed_commands # <<>> /\ mc \notin Elems(self.allowed_commands)
                   THEN {mc} ELSE {})
             \cup (IF self.allowed_paths # <<>>
                      /\ ~\E path \in Elems(self.allowed_paths) :
                            StartsWith(WorkingDirOf(q), path)
                   THEN {WorkingDirOf(q)} ELSE {})
             \cup (IF DangerousIn[c] # "" THEN {DangerousIn[c]} ELSE {})

\* the request has a command with an executable and nothing to refuse it for
PassesValidation(self, q) ==
    /\ CommandOf(q) # ""
    /\ MainCommandOf[CommandOf(q)] # ""
    /\ Offences(self, q) = {}

\* C23: the shell plugin invokes its Action Source only for a request that
\* passed validation (command not empty, executable not blocked and in the
\* allow-list when there is one, working directory under an allowed path, no
\* dangerous pattern in the command); every other request to a running plugin
\* is answered with status failed and an error that names the offending
\* command, directory or pattern, without invoking the source.
C23_SourceOnlyAfterValidation ==
    (pc = "readline" /\ kind = Shell /\ Answers(response, "execute_action")
       /\ "data" \in DOMAIN response)
      => LET result == response.data
             q == RequestOf(Shell, result.id)
         IN  /\ invoked = 1 => (plugin.running /\ PassesValidation(plugin, q))
             /\ (plugin.running /\ ~PassesValidation(plugin, q))
                  => /\ invoked = 0
                     /\ result.status = "failed"
                     /\ "error" \in DOMAIN result
                     /\ Offences(plugin, q) # {}
                          => \E i \in DOMAIN result.error :
                                result.error[i] \in Offences(plugin, q)

\* C23 witness: a running shell plugin refused the command rm -rf / without
\* invoking its source
C23_Witness ==
    /\ kind = Shell
    /\ plugin.running
    /\ Answers(response, "execute_action")
    /\ "data" \in DOMAIN response
    /\ CommandOf(RequestOf(Shell, response.data.id)) = "rm -rf /"
    /\ response.data.status = "failed"
    /\ invoked = 0

\* the response carries an ActionResult
IsResult(r) == Answers(r, "execute_action") /\ "data" \in DOMAIN r

\* C24: in every ActionResult `data` and `error` exclude each other: a
\* completed result has data and no error, a failed result has error and no
\* data.
C24_DataXorError ==
    IsResult(response)
      => LET result == response.data
         IN  /\ result.status = "completed"
                  => ("data" \in DOMAIN result /\ "error" \notin DOMAIN result)
             /\ result.status = "failed"
                  => ("error" \in DOMAIN result /\ "data" \notin DOMAIN result)

\* the request passes the validation of its plugin: the shell plugin's checks
\* of the command, the email plugin's check that there is a recipient
Valid(k, self, q) ==
    IF k = Shell THEN PassesValidation(self, q)
    ELSE Len(Get(Get(q, "parameters", EmptyDict), "to", List(<<>>)).v) > 0

\* C25: an execute_action call invokes the Action Source at most once, and
\* exactly once when the plugin is running and the request passes
\* validation; a failed outcome is returned without a second attempt.
C25_OneAttempt ==
    (pc = "readline" /\ IsResult(response))
      => /\ invoked \in {0, 1}
         /\ invoked = 1
              <=> (plugin.running
                   /\ Valid(kind, plugin, RequestOf(kind, response.data.id)))

\* C25 witness: the email source was invoked once and failed, and the failed
\* result was returned
C25_Witness ==
    /\ kind = Email
    /\ IsResult(response)
    /\ plugin.running
    /\ response.data.status = "failed"
    /\ "data" \in DOMAIN response.data
    /\ invoked = 1

\* C26: every ActionResult, on every path of execute_action (plugin not
\* running, validation failure, source failure, internal exception, success),
\* has started_at, completed_at and duration, and the duration is not negative.
C26_TimesPopulated ==
    IsResult(response)
      => LET result == response.data
         IN  /\ {"started_at", "completed_at", "duration"} \subseteq DOMAIN result
             /\ result.started_at \in 0..MaxTime
             /\ result.completed_at \in 0..MaxTime
             /\ result.duration \in 0..MaxTime

\* C26 witness: a result built after the source took time to fail, with its
\* times
C26_Witness ==
    /\ IsResult(response)
    /\ response.data.status = "failed"
    /\ invoked = 1
    /\ "duration" \in DOMAIN response.data
    /\ response.data.duration > 0

\* C27: every ActionResult, the ones built for a plugin that is not running
\* or for a validation failure included, carries metadata with plugin_id,
\* plugin_version and execution_host.
C27_MetadataComplete ==
    IsResult(response)
      => /\ "metadata" \in DOMAIN response.data
         /\ {"plugin_id", "plugin_version", "execution_host"}
              \subseteq DOMAIN response.data.metadata

\* C28: the simulated Action Source is deterministic.  Two instances in
\* simulated mode that received the same commands are in the same state, so
\* the statement is that in every state of a running simulated plugin each
\* request has one possible status and one possible error, whatever the
\* source does.
C28_SimulatedDeterministic ==
    (kind \in ActionKinds /\ plugin.demo_mode /\ plugin.running)
      => \A q \in Requests(kind) \ {EmptyDict} :
            \A o1, o2 \in Outcomes(kind, plugin) :
               LET r1 == execute_action(kind, plugin, q, now, o1).ret
                   r2 == execute_action(kind, plugin, q, now, o2).ret
               IN  /\ r1.status = r2.status
                   /\ ("error" \in DOMAIN r1) = ("error" \in DOMAIN r2)

\* C29: every execution of the real shell Action Source ends: the child
\* finishes within the timeout (the request's value, else the configured
\* one) or is killed when the timeout expires, so no execute_action call is
\* left waiting in communicate() for a child that does not end.
C29_ExecutionEnds == pc # "communicate"

\* a captured stream as the caller is to get it under the limit max
Bounded(out, max) ==
    IF Len(out) > max THEN SubSeq(out, 1, max) \o TruncationMarker ELSE out

\* C30: the real shell Action Source bounds the captured output: a stdout or
\* stderr stream longer than max_output_size comes back as its first
\* max_output_size characters followed by the truncation marker, a stream not
\* longer than that comes back unchanged, without marker.
C30_OutputBounded ==
    (kind = Shell /\ ~plugin.demo_mode /\ IsResult(response)
       /\ response.data.status = "completed")
      => \E o \in {x \in Outcomes(Shell, plugin) : x.how = "child"} :
            /\ response.data.data.stdout = Bounded(o.stdout, plugin.max_output_size)
            /\ response.data.data.stderr = Bounded(o.stderr, plugin.max_output_size)
            /\ response.data.data.return_code = o.rc

\* C30 witness: with max_output_size 4 a stdout of six characters came back
\* as its first four and the marker
C30_Witness ==
    /\ kind = Shell
    /\ ~plugin.demo_mode
    /\ plugin.max_output_size = 4
    /\ IsResult(response)
    /\ response.data.status = "completed"
    /\ response.data.data.stdout = "abcd" \o TruncationMarker

\* the step is the command with this action: it prints the answer, the clock
\* stands still and the loop goes on
CommandStep(action) ==
    pc' = "readline" /\ now' = now /\ Answers(response', action)

\* the SMTP fields the email plugin requires
RequiredFields == {"smtp_server", "username", "password", "from_email"}

\* a required field is missing from the config or empty in it
Incomplete(config) ==
    \E f \in RequiredFields : f \notin DOMAIN config \/ ~Truthy(config[f])

\* C31: in the email plugin in non-simulated mode, initialize with a config in
\* which smtp_server, username, password or from_email is missing or empty
\* fails and the state becomes error; in simulated mode the same config is
\* accepted and the state becomes initialized.  (Configs whose smtp_port is
\* no number fail in both modes and are left aside.)
C31_RequiredSMTPFields ==
    [][(/\ kind = Email
        /\ CommandStep("initialize")
        /\ Incomplete(plugin'.config)
        /\ Converts(Get(plugin'.config, "smtp_port", Num(587))))
         => IF plugin.demo_mode
            THEN response'.success /\ plugin'.status = "initialized"
            ELSE ~response'.success /\ plugin'.status = "error"]_vars

\* C32: stop() reports success and leaves the state stopped, from running
\* and again when repeated at once; after stop() and until the next start(),
\* detect_triggers returns no event and execute_action returns a failed
\* result without invoking the source.  "After stop() until the next start()"
\* is told by steps: stop() leaves the plugin not running, only start() ends
\* that, and a plugin that is not running detects and executes nothing.
C32_StopStops ==
    [][/\ CommandStep("stop")
            => (response'.success = TRUE /\ plugin'.status = "stopped"
                /\ ~plugin'.running)
       /\ (~plugin.running /\ ~CommandStep("start")) => ~plugin'.running
       /\ (~plugin.running /\ kind \in TriggerKinds /\ DetectStep)
            => (response'.data = None
                /\ plugin'.last_alert_time = plugin.last_alert_time)
       /\ (~plugin.running /\ kind \in ActionKinds
             /\ CommandStep("execute_action"))
            => (response'.data.status = "failed" /\ invoked' = 0)]_vars

\* C32 witness: an action plugin that was started and then stopped answered
\* execute_action with a failed result
C32_Witness ==
    /\ kind \in ActionKinds
    /\ plugin.start_time # <<>>
    /\ plugin.status = "stopped"
    /\ ~plugin.running
    /\ IsResult(response)
    /\ response.data.status = "failed"
    /\ invoked = 0

\* the commands that only read
ReadActions ==
    {"get_info", "get_status", "get_health", "get_trigger_config", "get_action_config"}

\* C33: get_health, get_status, get_info and get_trigger_config /
\* get_action_config are pure reads: in every state they leave the lifecycle
\* state, the running flag, the start timestamp, the configuration and the
\* cooldown table (with every other field of the plugin) unchanged.
C33_ReadsArePure ==
    [][(\E a \in ReadActions \cap Recognized(kind) : CommandStep(a))
         => plugin' = plugin]_vars

\* C33 witness: get_health was answered by a running monitor that has alerts
\* in its cooldown table
C33_Witness ==
    /\ kind \in TriggerKinds
    /\ Answers(response, "get_health")
    /\ plugin.running
    /\ plugin.start_time # <<>>
    /\ DOMAIN plugin.last_alert_time # {}

\* C34: after a successful initialize of a monitoring plugin the accepted
\* settings satisfy the constraints get_trigger_config publishes,
\* alert_cooldown at least 60 and interval at least 1; a config with an
\* alert_cooldown below 60 is rejected and the state becomes error.
C34_PublishedMinimaEnforced ==
    [][(kind \in TriggerKinds /\ CommandStep("initialize"))
         => /\ response'.success
                 => (plugin'.alert_cooldown >= 60 /\ plugin'.interval >= 1)
            /\ ("alert_cooldown" \in DOMAIN plugin'.config
                  /\ Converts(plugin'.config.alert_cooldown)
                  /\ plugin'.config.alert_cooldown.v < 60)
                 => (~response'.success /\ plugin'.status = "error")]_vars

\* C35: in every plugin, after any sequence of initialize, start and stop,
\* the running flag that gates detect_triggers, execute_action and get_health
\* is true if and only if the status get_status returns is "running".
C35_RunningFlagIsStatus == plugin.running <=> (get_status(plugin) = "running")

\* C36: every ActionResult returned by execute_action has a terminal status,
\* completed or failed; the intermediate status running is never returned,
\* also when the Action Source or the assembly of the result raises.
C36_TerminalStatus ==
    IsResult(response) => response.data.status \in {"completed", "failed"}

\* C36 witness: an exception inside the try of execute_action was turned into
\* a failed result built on the running result (it has the execution host and
\* no data)
C36_Witness ==
    /\ IsResult(response)
    /\ response.data.status = "failed"
    /\ "data" \notin DOMAIN response.data
    /\ "execution_host" \in DOMAIN response.data.metadata

\* C37: the cooldown table is written only by a detect_triggers call that
\* returns an event, and that call changes no entry but the one of the
\* emitted alert key; a detect_triggers call that returns null, and every
\* other command, leaves the whole table as it was.
C37_OnlyEmittedKeyWritten ==
    [][IF DetectStep /\ IsEvent(response')
       THEN /\ EventKey(kind, response'.data) \in DOMAIN plugin'.last_alert_time
            /\ \A key \in (DOMAIN plugin.last_alert_time
                              \cup DOMAIN plugin'.last_alert_time)
                             \ {EventKey(kind, response'.data)} :
                  /\ key \in DOMAIN plugin.last_alert_time
                  /\ key \in DOMAIN plugin'.last_alert_time
                  /\ plugin'.last_alert_time[key] = plugin.last_alert_time[key]
       ELSE plugin'.last_alert_time = plugin.last_alert_time]_vars

\* C37 witness: an event has just been returned and recorded while the table
\* holds an older entry under another key
C37_Witness ==
    /\ IsEvent(response)
    /\ EventKey(kind, response.data) \in DOMAIN plugin.last_alert_time
    /\ plugin.last_alert_time[EventKey(kind, response.data)] = now
    /\ \E key \in DOMAIN plugin.last_alert_time :
          /\ key # EventKey(kind, response.data)
          /\ plugin.last_alert_time[key] < now

\* the other alert level of a filesystem
OtherLevel(alert_level) == IF alert_level = "critical" THEN "warning" ELSE "critical"

\* C38: in the disk-space monitor a filesystem that a poll finds in alert
\* range at a level it has no cooldown entry for gets its event in that very
\* poll, though the same mountpoint alerted at the other level less than
\* alert_cooldown seconds ago: entries of the other level, and entries of
\* other mountpoints, do not hold it back.
C38_LevelChangeAlertsAtOnce ==
    [][(kind = Disk /\ plugin.running /\ Answers(response', "detect_triggers")
          /\ metrics'.read /\ metrics'.ok)
       => \A fs \in Elems(_get_disk_info(plugin, metrics')) :
            LET alert_level == DiskAlertLevel(plugin, fs.percent)
                other == DiskAlertKey(fs.mountpoint, OtherLevel(alert_level))
            IN  (/\ alert_level # "skip"
                 /\ DiskAlertKey(fs.mountpoint, alert_level)
                       \notin DOMAIN plugin.last_alert_time
                 /\ other \in DOMAIN plugin.last_alert_time
                 /\ other \in DOMAIN plugin'.last_alert_time
                 /\ now' - plugin'.last_alert_time[other] < plugin.alert_cooldown)
                => /\ IsEvent(response')
                   /\ response'.data.data.filesystem.mountpoint = fs.mountpoint
                   /\ response'.data.data.alert_level = alert_level]_vars

\* a call of the Metrics Source raised during the reading
SourceFailed(m) == m.read /\ (~m.ok \/ "fails" \in DOMAIN m)

\* C39: when the Metrics Source fails during detect_triggers on a running
\* monitoring plugin, the answer is action detect_triggers, success true and
\* data null, and the cooldown table, the running flag and the status are
\* as before.
C39_FailedReadingIsNoEvent ==
    [][(DetectStep /\ plugin.running /\ SourceFailed(metrics'))
         => /\ response' = [action |-> "detect_triggers", success |-> TRUE, data |-> None]
            /\ plugin'.last_alert_time = plugin.last_alert_time
            /\ plugin'.running = plugin.running
            /\ plugin'.status = plugin.status]_vars

\* C40: in both modes of the shell plugin the return code of the command
\* decides the status of the ActionResult: a completed result carries return
\* code 0, and a failed result of a command that ended carries a return code
\* other than 0.
C40_ReturnCodeDecidesStatus ==
    (kind = Shell /\ IsResult(response) /\ "data" \in DOMAIN response.data)
      => /\ response.data.status = "completed" => response.data.data.return_code = 0
         /\ (response.data.status = "failed" /\ plugin.demo_mode)
               => response.data.data.return_code # 0

====
